---- MODULE Spec2Model ----
(***************************************************************************)
(* Model of 02_generate_predicted_sedimentation_grids.py: a batch driver   *)
(* that, for every paleo-time of a range and for each enabled mode (rate,  *)
(* thickness), builds one command line and runs the external predictor,    *)
(* either on a multiprocessing pool or sequentially on the main thread.    *)
(***************************************************************************)
EXTENDS Integers, Sequences, FiniteSets, TLC

\* ------------------------------------------------------------------------
\* Bounds of the model
\* ------------------------------------------------------------------------
MaxTime == 2          \* largest min_time, max_time and time_step explored
MaxCpus == 2          \* largest worker count / detected core count explored
MaxInterrupts == 1    \* user interrupts delivered during one behaviour

\* ------------------------------------------------------------------------
\* User input (lines 43-81)
\* ------------------------------------------------------------------------
Modes == {"rate", "thickness"}

\* Values of the option use_all_cpus.  type is the Python type ("bool",
\* "int", or "other" for None, a string, a float...), val is the integer
\* value of a bool or int (False = 0, True = 1) and, for "other", 0 for a
\* falsy object (None, '') and 1 for a truthy one ('4', 2.5).
UseAllCpusValues ==
    [type : {"bool"}, val : {0, 1}]
        \cup [type : {"int"}, val : (-1) .. MaxCpus]
        \cup [type : {"other"}, val : {0, 1}]

\* The base output directory is user input ('.' as shipped); the model keeps
\* it symbolic.
output_base_dir == "<output_base_dir>"
sediment_output_sub_dir == "<output_base_dir>/sedimentation_output"

\* Python's truth value of the option, as tested by "if use_all_cpus:".
Truthy(u) == u.val # 0

\* isinstance(u, bool); isinstance(u, int) (a bool is an int in Python).
IsBool(u) == u.type = "bool"
IsInt(u) == u.type \in {"bool", "int"}

\* '{:.1f}'.format(t) and '{:.0f}'.format(t) for an integer time t >= 0.
Format1f(t) == ToString(t) \o ".0"
Format0f(t) == ToString(t)

distance_grid_filenames_format(t) ==
    "<output_base_dir>/distances_0.1d/mean_distance_0.1d_" \o Format1f(t) \o ".nc"

age_grid_filenames_format(t) ==
    "/Users/nickywright/Data/Age/Muller2019-Young2019-Cao2020_Agegrids/Muller2019-Young2019-Cao2020_netCDF/Muller2019-Young2019-Cao2020_AgeGrid-" \o Format0f(t) \o ".nc"

grid_spacing == "0.1"

\* range(a, b, s) for s >= 1, as a sequence.
RECURSIVE Range(_, _, _)
Range(a, b, s) == IF a >= b THEN << >> ELSE << a >> \o Range(a + s, b, s)

RangeShort(lo, hi, s) == Range(lo, hi, s)

\* times = range(min_time, max_time + 1, time_step)
TimesOf(lo, hi, s) == Range(lo, hi + 1, s)

SeqToSet(q) == {q[i] : i \in 1 .. Len(q)}

\* ------------------------------------------------------------------------
\* Per-mode parameters (lines 236-250 and 336-349).  Floats appear as the
\* text str() gives them; scale "None" is Python's None.
\* ------------------------------------------------------------------------
NoScale == "None"

RateParams ==
    [predict_sedimentation_script |-> "predict_sedimentation_rate.py",
     scale_sedimentation_rate |-> "10.0",
     mean_age |-> "61.17716597",
     mean_distance |-> "1835.10750592",
     variance_age |-> "1934.78513885",
     variance_distance |-> "1207587.8548734",
     max_age |-> "191.87276",
     max_distance |-> "3000.0",
     age_distance_polynomial_coefficients |->
        << "1.350082937086441", "-0.26385415", "-0.07516542", "0.39197707",
           "-0.15475392", "0.0", "-0.13196083", "0.02481208", "-0.0",
           "-0.47570021" >>,
     output_dir |-> "<output_base_dir>/sedimentation_output/predicted_rate",
     output_file_basename_prefix |->
        "<output_base_dir>/sedimentation_output/predicted_rate/sed_rate_0.1d"]

ThicknessParams ==
    [predict_sedimentation_script |-> "predict_sediment_thickness.py",
     scale_sedimentation_rate |-> NoScale,
     mean_age |-> "61.18406823",
     mean_distance |-> "1835.28118479",
     variance_age |-> "1934.6999014",
     variance_distance |-> "1207521.8995806",
     max_age |-> "191.87276",
     max_distance |-> "3000.0",
     age_distance_polynomial_coefficients |->
        << "5.441401190368497", "0.46893096", "-0.07320928", "-0.24077496",
           "-0.10840657", "0.00381672", "0.06831728", "0.01179914",
           "0.01158149", "-0.39880562" >>,
     output_dir |-> "<output_base_dir>/sedimentation_output/predicted_thickness",
     output_file_basename_prefix |->
        "<output_base_dir>/sedimentation_output/predicted_thickness/sed_thick_0.1d"]

ModeParams(m) == IF m = "rate" THEN RateParams ELSE ThicknessParams

\* ------------------------------------------------------------------------
\* generate_predicted_sedimentation_grid: the command line (lines 108-138)
\* ------------------------------------------------------------------------
ScaleArgs(scale) == IF scale # NoScale THEN << "-s", scale >> ELSE << >>

CommandLineNoScale(t, p) ==
    << "python", p.predict_sedimentation_script,
       "-d", distance_grid_filenames_format(t),
       "-g", age_grid_filenames_format(t),
       "-i", grid_spacing,
       "-w",
       "-m", p.mean_age, p.mean_distance,
       "-v", p.variance_age, p.variance_distance,
       "-x", p.max_age, p.max_distance,
       "-f" >>
      \o p.age_distance_polynomial_coefficients
      \o << "--", p.output_file_basename_prefix \o "_" \o Format1f(t) >>

CommandLine(t, p) ==
    << "python", p.predict_sedimentation_script,
       "-d", distance_grid_filenames_format(t),
       "-g", age_grid_filenames_format(t),
       "-i", grid_spacing,
       "-w",
       "-m", p.mean_age, p.mean_distance,
       "-v", p.variance_age, p.variance_distance,
       "-x", p.max_age, p.max_distance,
       "-f" >>
      \o p.age_distance_polynomial_coefficients
      \o ScaleArgs(p.scale_sedimentation_rate)
      \o << "--", p.output_file_basename_prefix \o "_" \o Format1f(t) >>

\* ------------------------------------------------------------------------
\* Worker-count resolution (lines 259-271 and 357-369).  cpu is the result
\* of multiprocessing.cpu_count(), 0 standing for NotImplementedError.
\* ------------------------------------------------------------------------
CpuCountOutcomes == 0 .. MaxCpus

ResolveWorkers(u, cpu) ==
    IF Truthy(u)
    THEN IF IsBool(u)
         THEN [kind |-> "parallel", n |-> IF cpu = 0 THEN 1 ELSE cpu]
         ELSE IF IsInt(u) /\ u.val > 0
              THEN [kind |-> "parallel", n |-> u.val]
              ELSE [kind |-> "TypeError", n |-> 0]
    ELSE [kind |-> "sequential", n |-> 0]

\* ------------------------------------------------------------------------
\* Directories (lines 89-91, 249-255, 348-354)
\* ------------------------------------------------------------------------
Dirs == {output_base_dir, sediment_output_sub_dir,
         RateParams.output_dir, ThicknessParams.output_dir}

Parent(d) == IF d = sediment_output_sub_dir THEN output_base_dir
             ELSE sediment_output_sub_dir

\* The file-system states: a directory exists only inside an existing one.
FileSystems ==
    {f \in SUBSET Dirs : \A d \in f : d = output_base_dir \/ Parent(d) \in f}

\* "if not os.path.exists(d): os.mkdir(d)"; os.mkdir does not create the
\* parent and raises FileNotFoundError when it is missing.
EnsureDir(f, d) ==
    IF d \in f THEN [fs |-> f, err |-> "none"]
    ELSE IF Parent(d) \in f THEN [fs |-> f \cup {d}, err |-> "none"]
    ELSE [fs |-> f, err |-> "FileNotFoundError"]

\* ------------------------------------------------------------------------
\* Exceptions
\* ------------------------------------------------------------------------
\* call_system_command(command_line) is called with its default arguments
\* (line 146): a failure to start the program or a non-zero exit status is
\* printed and the call returns None.
CallSystemCommandRaising(ok) == IF ok THEN "none" ELSE "CalledProcessError"

CallSystemCommand(ok) == "none"

\* generate_predicted_sedimentation_grid_parallel_pool_function: the
\* worker-side "except KeyboardInterrupt: pass" (lines 151-155).
PoolFunction(err) == IF err = "KeyboardInterrupt" THEN "none" ELSE err

\* The dispatcher's "except KeyboardInterrupt: pass" (lines 299-301 and
\* 397-399): the exception still in flight when the finally block runs.
NoExceptClause(err) == err

ExceptKeyboardInterrupt(err) ==
    IF err = "KeyboardInterrupt" THEN "none" ELSE err

\* ------------------------------------------------------------------------
\* State
\* ------------------------------------------------------------------------
VARIABLES
    use_all_cpus, min_time, max_time, time_step,
    generate_sedimentation_rate_grids, generate_sediment_thickness_grids,
    fs,            \* directories that exist
    pc,            \* position of the main process
    mode,          \* the mode whose block the main process is in
    cpu_count,     \* last result of multiprocessing.cpu_count(), -1 before
    resolved,      \* outcome of the last worker-count resolution
    pool,          \* binding of the name "pool": "unbound" or a mode
    poolState,     \* per mode: "none", "run", "closed", "joined"
    poolSize,      \* per mode: number of worker processes
    queue,         \* per mode: tasks not yet taken by a worker
    busy,          \* per mode and worker: the job it executes, or Idle
    poolError,     \* first exception a task of the current batch raised
    running,       \* job the main process executes (sequential), or Idle
    loopIdx,       \* index of the sequential loop in times
    pending,       \* exception in flight while the finally block runs
    uncaught,      \* exception that ended the process, or "none"
    invoked,       \* per mode and time: external calls started in this run
    completed,     \* per mode: times whose call has returned in this run
    anyFailed,     \* some external call of this run failed
    interrupted,   \* some user interrupt was delivered in this run
    interrupts,    \* user interrupts delivered so far
    mainInterrupted, \* the dispatcher was interrupted inside its try block
    caught,        \* modes whose dispatcher suppressed an interrupt
    raisedAt,      \* position at which the uncaught exception was raised
    exits,         \* modes whose parallel dispatch block was left
    createFailed,  \* the creation of a pool failed in this run
    created,       \* directories created in this run
    missing,       \* directories absent when this run started
    run,           \* 1 for the first run, 2 for the re-run
    prevInvoked,   \* jobs invoked by the first run
    prevOK         \* the first run ended without exception or interrupt

cfg == << use_all_cpus, min_time, max_time, time_step,
          generate_sedimentation_rate_grids,
          generate_sediment_thickness_grids >>

poolVars == << pool, poolState, poolSize, queue, busy, poolError >>

histVars == << anyFailed, interrupted, interrupts, mainInterrupted, caught,
               raisedAt, exits, createFailed, created, missing, run,
               prevInvoked, prevOK >>

vars == << cfg, fs, pc, mode, cpu_count, resolved, poolVars, running,
           loopIdx, pending, uncaught, invoked, completed, histVars >>

Idle == [time |-> -1, cmd |-> << >>]

Job(m, t) == [time |-> t, cmd |-> CommandLine(t, ModeParams(m))]

times == TimesOf(min_time, max_time, time_step)

Enabled(m) == IF m = "rate" THEN generate_sedimentation_rate_grids
              ELSE generate_sediment_thickness_grids

Workers == 1 .. (MaxCpus + 1)

\* A worker process asks for its next task only when it has none.
WorkerFree(b) == b = Idle

\* pool.join() returns once every worker process has exited, which they do
\* after the closed pool's task queue is drained.
\* Every task of the batch submitted to pool m is done.
BatchDone(m) == queue[m] = << >> /\ \A w \in Workers : busy[m][w] = Idle

JoinReadyNow(m) == TRUE

JoinReady(m) == queue[m] = << >> /\ \A w \in Workers : busy[m][w] = Idle

Unresolved == [kind |-> "unresolved", n |-> 0]

ProgramInit ==
    /\ pc = "start"
    /\ mode = "rate"
    /\ cpu_count = -1
    /\ resolved = Unresolved
    /\ pool = "unbound"
    /\ poolState = [m \in Modes |-> "none"]
    /\ poolSize = [m \in Modes |-> 0]
    /\ queue = [m \in Modes |-> << >>]
    /\ busy = [m \in Modes |-> [w \in Workers |-> Idle]]
    /\ poolError = "none"
    /\ running = Idle
    /\ loopIdx = 1
    /\ pending = "none"
    /\ uncaught = "none"
    /\ invoked = [m \in Modes |-> [t \in 0 .. MaxTime |-> 0]]
    /\ completed = [m \in Modes |-> {}]
    /\ anyFailed = FALSE
    /\ interrupted = FALSE
    /\ mainInterrupted = FALSE
    /\ caught = {}
    /\ raisedAt = "nowhere"
    /\ exits = {}
    /\ createFailed = FALSE
    /\ created = {}

Init ==
    /\ use_all_cpus \in UseAllCpusValues
    /\ min_time \in 0 .. MaxTime
    /\ max_time \in 0 .. MaxTime
    /\ time_step \in 1 .. MaxTime
    /\ generate_sedimentation_rate_grids \in BOOLEAN
    /\ generate_sediment_thickness_grids \in BOOLEAN
    /\ fs \in FileSystems
    /\ missing = Dirs \ fs
    /\ interrupts = 0
    /\ run = 1
    /\ prevInvoked = {}
    /\ prevOK = FALSE
    /\ ProgramInit

\* ------------------------------------------------------------------------
\* Main process
\* ------------------------------------------------------------------------
\* Control leaves the block of the current mode: on to the thickness block
\* after the rate block, to the end of the script after the thickness block.
LeaveMode ==
    IF mode = "rate"
    THEN pc' = "begin" /\ mode' = "thickness"
    ELSE pc' = "done" /\ mode' = mode

\* An exception leaves the script: the process ends with a traceback.
Raise(err, at) ==
    /\ pc' = "done"
    /\ mode' = mode
    /\ uncaught' = err
    /\ raisedAt' = at

\* Lines 89-91: module-level creation of the output directory.
ModuleLevel ==
    /\ pc = "start"
    /\ LET r == EnsureDir(fs, sediment_output_sub_dir) IN
        /\ fs' = r.fs
        /\ created' = created \cup (r.fs \ fs)
        /\ IF r.err # "none"
           THEN Raise(r.err, "start")
           ELSE /\ pc' = "begin"
                /\ UNCHANGED << mode, uncaught, raisedAt >>
    /\ UNCHANGED << cfg, cpu_count, resolved, poolVars, running, loopIdx,
                    pending, invoked, completed, anyFailed, interrupted,
                    interrupts, mainInterrupted, caught, exits, createFailed,
                    missing, run, prevInvoked, prevOK >>

\* Lines 233 and 333: the mode is switched off.
SkipMode ==
    /\ pc = "begin"
    /\ ~Enabled(mode)
    /\ LeaveMode
    /\ UNCHANGED << cfg, fs, cpu_count, resolved, poolVars, running, loopIdx,
                    pending, uncaught, invoked, completed, histVars >>

\* Lines 233-271 and 333-369: the mode's parameters, its output directory
\* and the resolution of the worker count.
BeginMode ==
    /\ pc = "begin"
    /\ Enabled(mode)
    /\ LET r == EnsureDir(fs, ModeParams(mode).output_dir) IN
        /\ fs' = r.fs
        /\ created' = created \cup (r.fs \ fs)
        /\ IF r.err # "none"
           THEN /\ Raise(r.err, "begin")
                /\ UNCHANGED << cpu_count, resolved, loopIdx >>
           ELSE \E c \in CpuCountOutcomes :
                /\ IF Truthy(use_all_cpus) /\ IsBool(use_all_cpus)
                   THEN cpu_count' = c
                   ELSE c = 0 /\ cpu_count' = cpu_count
                /\ resolved' = ResolveWorkers(use_all_cpus, c)
                /\ CASE resolved'.kind = "parallel" ->
                            /\ pc' = "create_pool"
                            /\ UNCHANGED << mode, uncaught, raisedAt, loopIdx >>
                     [] resolved'.kind = "sequential" ->
                            /\ pc' = "seq_loop"
                            /\ loopIdx' = 1
                            /\ UNCHANGED << mode, uncaught, raisedAt >>
                     [] OTHER ->
                            /\ Raise("TypeError", "begin")
                            /\ UNCHANGED loopIdx
    /\ UNCHANGED << cfg, poolVars, running, pending, invoked, completed,
                    anyFailed, interrupted, interrupts, mainInterrupted,
                    caught, exits, createFailed, missing, run, prevInvoked, prevOK >>

\* Line 275 / 373: pool = multiprocessing.Pool(num_cpus, ...).
CreatePool ==
    /\ pc = "create_pool"
    /\ pool' = mode
    /\ poolState' = [poolState EXCEPT ![mode] = "run"]
    /\ poolSize' = [poolSize EXCEPT ![mode] = resolved.n]
    /\ poolError' = "none"
    /\ pc' = "submit"
    /\ UNCHANGED << cfg, fs, mode, cpu_count, resolved, queue, busy, running,
                    loopIdx, pending, uncaught, invoked, completed, histVars >>

\* Line 275 / 373 raises (the processes cannot be started, or the user
\* interrupts): the name "pool" is not bound by this statement, and control
\* goes through the except clause to the finally block.
CreatePoolFails ==
    /\ pc = "create_pool"
    /\ \E err \in {"OSError", "KeyboardInterrupt"} :
        /\ IF err = "KeyboardInterrupt"
           THEN /\ interrupts < MaxInterrupts
                /\ interrupts' = interrupts + 1
                /\ interrupted' = TRUE
           ELSE UNCHANGED << interrupts, interrupted >>
        /\ pending' = ExceptKeyboardInterrupt(err)
    /\ createFailed' = TRUE
    /\ pc' = "close"
    /\ UNCHANGED << cfg, fs, mode, cpu_count, resolved, poolVars, running,
                    loopIdx, uncaught, invoked, completed, anyFailed,
                    mainInterrupted, caught, raisedAt, exits, created,
                    missing, run, prevInvoked, prevOK >>

\* Lines 276-293 / 374-391: map_async puts one task per time, in order.
Submit ==
    /\ pc = "submit"
    /\ queue' = [queue EXCEPT ![mode] = times]
    /\ pc' = "wait"
    /\ UNCHANGED << cfg, fs, mode, cpu_count, resolved, pool, poolState,
                    poolSize, busy, poolError, running, loopIdx, pending,
                    uncaught, invoked, completed, histVars >>

\* Line 298 / 396: get() returns when every task of the batch is done, or
\* raises the first exception a task raised.
GetReturns ==
    /\ pc = "wait"
    /\ BatchDone(mode)
    /\ pending' = ExceptKeyboardInterrupt(poolError)
    /\ pc' = "close"
    /\ UNCHANGED << cfg, fs, mode, cpu_count, resolved, poolVars, running,
                    loopIdx, uncaught, invoked, completed, histVars >>

\* A user interrupt reaches the main process inside the try block, after
\* the pool was created (lines 276-298 / 374-396).
MainInterrupt ==
    /\ pc \in {"submit", "wait"}
    /\ interrupts < MaxInterrupts
    /\ interrupts' = interrupts + 1
    /\ interrupted' = TRUE
    /\ mainInterrupted' = TRUE
    /\ caught' = caught \cup {mode}
    /\ pending' = ExceptKeyboardInterrupt("KeyboardInterrupt")
    /\ pc' = "close"
    /\ UNCHANGED << cfg, fs, mode, cpu_count, resolved, poolVars, running,
                    loopIdx, uncaught, invoked, completed, anyFailed,
                    raisedAt, exits, createFailed, created, missing, run,
                    prevInvoked, prevOK >>

\* Line 303 / 401: pool.close() on whatever the name "pool" is bound to.
Close ==
    /\ pc = "close"
    /\ IF pool = "unbound"
       THEN /\ Raise("NameError", "close")
            /\ exits' = exits \cup {mode}
            /\ pending' = "none"
            /\ UNCHANGED poolState
       ELSE /\ poolState' = [poolState EXCEPT ![pool] =
                                IF @ = "run" THEN "closed" ELSE @]
            /\ pc' = "join"
            /\ UNCHANGED << mode, uncaught, raisedAt, exits, pending >>
    /\ UNCHANGED << cfg, fs, cpu_count, resolved, pool, poolSize, queue, busy,
                    poolError, running, loopIdx, invoked, completed,
                    anyFailed, interrupted, interrupts, mainInterrupted,
                    caught, createFailed, created, missing, run,
                    prevInvoked, prevOK >>

\* Line 304 / 402: pool.join(), then the end of the try statement: the
\* exception still in flight, if any, leaves the script.
Join ==
    /\ pc = "join"
    /\ JoinReady(pool)
    /\ poolState' = [poolState EXCEPT ![pool] = "joined"]
    /\ exits' = exits \cup {mode}
    /\ pending' = "none"
    /\ IF pending # "none"
       THEN Raise(pending, "try")
       ELSE LeaveMode /\ UNCHANGED << uncaught, raisedAt >>
    /\ UNCHANGED << cfg, fs, cpu_count, resolved, pool, poolSize, queue, busy,
                    poolError, running, loopIdx, invoked, completed,
                    anyFailed, interrupted, interrupts, mainInterrupted,
                    caught, createFailed, created, missing, run,
                    prevInvoked, prevOK >>

\* A user interrupt reaches the main process while it waits in pool.join()
\* (line 304 / 402), outside any except clause.
JoinInterrupt ==
    /\ pc = "join"
    /\ interrupts < MaxInterrupts
    /\ interrupts' = interrupts + 1
    /\ interrupted' = TRUE
    /\ Raise("KeyboardInterrupt", "join")
    /\ exits' = exits \cup {mode}
    /\ pending' = "none"
    /\ UNCHANGED << cfg, fs, cpu_count, resolved, poolVars, running, loopIdx,
                    invoked, completed, anyFailed, mainInterrupted, caught,
                    createFailed, created, missing, run, prevInvoked, prevOK >>

\* ------------------------------------------------------------------------
\* Pool workers (map_async with chunksize 1, lines 276-293 / 374-391)
\* ------------------------------------------------------------------------
\* The worker processes live while the main process runs; a process that
\* ends with an uncaught exception terminates its pools on exit.
PoolAlive(m) == poolState[m] \in {"run", "closed"} /\ pc # "done"

\* A free worker takes the task at the head of the queue and starts the
\* external program (lines 153, 108-146).
WorkerTake(m, w) ==
    /\ PoolAlive(m)
    /\ w <= poolSize[m]
    /\ WorkerFree(busy[m][w])
    /\ queue[m] # << >>
    /\ LET t == Head(queue[m]) IN
        /\ busy' = [busy EXCEPT ![m][w] = Job(m, t)]
        /\ invoked' = [invoked EXCEPT ![m][t] = @ + 1]
    /\ queue' = [queue EXCEPT ![m] = Tail(@)]
    /\ UNCHANGED << cfg, fs, pc, mode, cpu_count, resolved, pool, poolState,
                    poolSize, poolError, running, loopIdx, pending, uncaught,
                    completed, histVars >>

\* The external program of a worker's job exits, with status zero (ok) or
\* not; the task is done (lines 146, 151-155).
WorkerFinish(m, w) ==
    /\ PoolAlive(m)
    /\ busy[m][w] # Idle
    /\ \E ok \in BOOLEAN :
        /\ anyFailed' = (anyFailed \/ ~ok)
        /\ LET err == PoolFunction(CallSystemCommand(ok)) IN
            poolError' = IF poolError = "none" THEN err ELSE poolError
    /\ completed' = [completed EXCEPT ![m] = @ \cup {busy[m][w].time}]
    /\ busy' = [busy EXCEPT ![m][w] = Idle]
    /\ UNCHANGED << cfg, fs, pc, mode, cpu_count, resolved, pool, poolState,
                    poolSize, queue, running, loopIdx, pending, uncaught,
                    invoked, interrupted, interrupts, mainInterrupted, caught,
                    raisedAt, exits, createFailed, created, missing, run,
                    prevInvoked, prevOK >>

\* A user interrupt reaches a worker inside its job: the wrapper swallows
\* the KeyboardInterrupt and the task is done (lines 151-155).
WorkerInterrupt(m, w) ==
    /\ PoolAlive(m)
    /\ busy[m][w] # Idle
    /\ interrupts < MaxInterrupts
    /\ interrupts' = interrupts + 1
    /\ interrupted' = TRUE
    /\ LET err == PoolFunction("KeyboardInterrupt") IN
        poolError' = IF poolError = "none" THEN err ELSE poolError
    /\ completed' = [completed EXCEPT ![m] = @ \cup {busy[m][w].time}]
    /\ busy' = [busy EXCEPT ![m][w] = Idle]
    /\ UNCHANGED << cfg, fs, pc, mode, cpu_count, resolved, pool, poolState,
                    poolSize, queue, running, loopIdx, pending, uncaught,
                    invoked, anyFailed, mainInterrupted, caught, raisedAt,
                    exits, createFailed, created, missing, run, prevInvoked, prevOK >>

\* ------------------------------------------------------------------------
\* Sequential loop (lines 307-315 / 405-413)
\* ------------------------------------------------------------------------
\* The next iteration builds its command line and starts the program.
SeqStart ==
    /\ pc = "seq_loop"
    /\ loopIdx <= Len(times)
    /\ running' = Job(mode, times[loopIdx])
    /\ invoked' = [invoked EXCEPT ![mode][times[loopIdx]] = @ + 1]
    /\ pc' = "seq_call"
    /\ UNCHANGED << cfg, fs, mode, cpu_count, resolved, poolVars, loopIdx,
                    pending, uncaught, completed, histVars >>

\* The external program exits; the loop goes on, or the exception the call
\* raised leaves the script.
SeqFinish ==
    /\ pc = "seq_call"
    /\ \E ok \in BOOLEAN :
        /\ anyFailed' = (anyFailed \/ ~ok)
        /\ LET err == CallSystemCommand(ok) IN
            IF err # "none"
            THEN /\ Raise(err, "seq")
                 /\ UNCHANGED << completed, loopIdx >>
            ELSE /\ completed' = [completed EXCEPT
                                    ![mode] = @ \cup {running.time}]
                 /\ loopIdx' = loopIdx + 1
                 /\ pc' = "seq_loop"
                 /\ UNCHANGED << mode, uncaught, raisedAt >>
    /\ running' = Idle
    /\ UNCHANGED << cfg, fs, cpu_count, resolved, poolVars, pending, invoked,
                    interrupted, interrupts, mainInterrupted, caught, exits,
                    createFailed, created, missing, run, prevInvoked, prevOK >>

\* The loop is exhausted.
SeqEnd ==
    /\ pc = "seq_loop"
    /\ loopIdx > Len(times)
    /\ LeaveMode
    /\ UNCHANGED << cfg, fs, cpu_count, resolved, poolVars, running, loopIdx,
                    pending, uncaught, invoked, completed, histVars >>

\* A user interrupt reaches the main process inside a sequential call: no
\* except clause is around the loop.
SeqInterrupt ==
    /\ pc = "seq_call"
    /\ interrupts < MaxInterrupts
    /\ interrupts' = interrupts + 1
    /\ interrupted' = TRUE
    /\ Raise("KeyboardInterrupt", "seq")
    /\ running' = Idle
    /\ UNCHANGED << cfg, fs, cpu_count, resolved, poolVars, loopIdx, pending,
                    invoked, completed, anyFailed, mainInterrupted, caught,
                    exits, createFailed, created, missing, run, prevInvoked, prevOK >>

\* ------------------------------------------------------------------------
\* The script is run again, with the same user input, on the file system the
\* first run left.
\* ------------------------------------------------------------------------
InvokedJobs == {<< m, t >> \in Modes \X (0 .. MaxTime) : invoked[m][t] > 0}

Rerun ==
    /\ pc = "done"
    /\ run = 1
    /\ run' = 2
    /\ prevInvoked' = InvokedJobs
    /\ prevOK' = (uncaught = "none" /\ ~interrupted)
    /\ missing' = Dirs \ fs
    /\ pc' = "start"
    /\ mode' = "rate"
    /\ cpu_count' = -1
    /\ resolved' = Unresolved
    /\ pool' = "unbound"
    /\ poolState' = [m \in Modes |-> "none"]
    /\ poolSize' = [m \in Modes |-> 0]
    /\ queue' = [m \in Modes |-> << >>]
    /\ busy' = [m \in Modes |-> [w \in Workers |-> Idle]]
    /\ poolError' = "none"
    /\ running' = Idle
    /\ loopIdx' = 1
    /\ pending' = "none"
    /\ uncaught' = "none"
    /\ invoked' = [m \in Modes |-> [t \in 0 .. MaxTime |-> 0]]
    /\ completed' = [m \in Modes |-> {}]
    /\ anyFailed' = FALSE
    /\ interrupted' = FALSE
    /\ mainInterrupted' = FALSE
    /\ caught' = {}
    /\ raisedAt' = "nowhere"
    /\ exits' = {}
    /\ createFailed' = FALSE
    /\ created' = {}
    /\ UNCHANGED << cfg, fs, interrupts >>

Next ==
    \/ ModuleLevel
    \/ SkipMode
    \/ BeginMode
    \/ CreatePool
    \/ CreatePoolFails
    \/ Submit
    \/ GetReturns
    \/ MainInterrupt
    \/ Close
    \/ Join
    \/ JoinInterrupt
    \/ \E m \in Modes, w \in Workers : WorkerTake(m, w)
    \/ \E m \in Modes, w \in Workers : WorkerFinish(m, w)
    \/ \E m \in Modes, w \in Workers : WorkerInterrupt(m, w)
    \/ SeqStart
    \/ SeqFinish
    \/ SeqEnd
    \/ SeqInterrupt

Spec == Init /\ [][Next]_vars

\* The same program, run a second time once the first run has ended.
NextRerun == Next \/ Rerun

SpecRerun == Init /\ [][NextRerun]_vars

\* ------------------------------------------------------------------------
\* Properties
\* ------------------------------------------------------------------------
\* The arithmetic sequence min_time, min_time + time_step, ... <= max_time.
ArithSeq ==
    {t \in min_time .. max_time : (t - min_time) % time_step = 0}

InvokedTimes(m) == {t \in 0 .. MaxTime : invoked[m][t] > 0}

NoJobInvoked == \A m \in Modes : InvokedTimes(m) = {}

InFlight(m) == {w \in Workers : busy[m][w] # Idle}

\* C1: the worker-count option resolves as documented: True to the detected
\* core count (1 when it cannot be detected), False to sequential execution,
\* a positive integer N to N workers, and a zero or negative integer to a
\* configuration error with no job run.
C1_WorkerCountResolution ==
    resolved.kind # "unresolved" =>
        /\ (use_all_cpus.type = "bool" /\ use_all_cpus.val = 1) =>
                /\ resolved.kind = "parallel"
                /\ resolved.n = (IF cpu_count <= 0 THEN 1 ELSE cpu_count)
                /\ resolved.n >= 1
        /\ (use_all_cpus.type = "bool" /\ use_all_cpus.val = 0) =>
                resolved.kind = "sequential"
        /\ (use_all_cpus.type = "int" /\ use_all_cpus.val > 0) =>
                /\ resolved.kind = "parallel"
                /\ resolved.n = use_all_cpus.val
        /\ (use_all_cpus.type = "int" /\ use_all_cpus.val <= 0) =>
                /\ resolved.kind = "TypeError"
                /\ NoJobInvoked

\* C2: in a run with no interrupt and no subprocess failure, every enabled
\* mode invokes the predictor exactly once for each time of the arithmetic
\* sequence and for no other time, in sequential and in parallel mode.
C2_ExactlyOncePerTime ==
    (~interrupted /\ ~anyFailed) =>
        /\ \A m \in Modes : \A t \in 0 .. MaxTime :
                /\ invoked[m][t] <= 1
                /\ invoked[m][t] = 1 => (Enabled(m) /\ t \in ArithSeq)
        /\ (pc = "done" /\ uncaught = "none") =>
                \A m \in Modes :
                    Enabled(m) =>
                        /\ InvokedTimes(m) = ArithSeq
                        /\ completed[m] = ArithSeq

C2_Witness ==
    /\ pc = "done" /\ uncaught = "none"
    /\ ~interrupted /\ ~anyFailed
    /\ resolved.kind = "parallel"
    /\ Enabled("rate") /\ Enabled("thickness")
    /\ time_step = 2
    /\ InvokedTimes("thickness") = {0, 2}

\* C3: once a user interrupt has reached the dispatcher of a parallel batch,
\* no job is started any more and the dispatcher does not go on to run
\* another batch.
C3_NoJobAfterInterrupt ==
    [][mainInterrupted =>
          /\ \A m \in Modes : \A t \in 0 .. MaxTime :
                invoked'[m][t] <= invoked[m][t]
          /\ pc' \notin {"create_pool", "submit", "wait", "seq_call"}]_vars

\* C4: whenever control has left a parallel dispatch block, the pool of
\* that block is closed and joined and the cleanup raised nothing.
C4_PoolAlwaysClosedAndJoined ==
    \A m \in exits :
        /\ poolState[m] = "joined"
        /\ raisedAt \notin {"close", "join"}

InvalidWorkerCount(u) == ~IsBool(u) /\ ~(u.type = "int" /\ u.val > 0)

C7_InvalidWorkerCountIsFatal ==
    InvalidWorkerCount(use_all_cpus) =>
        /\ NoJobInvoked
        /\ \A m \in Modes : poolState[m] = "none"
        /\ resolved.kind \in {"unresolved", "TypeError"}

\* C8: the command line of every rate job has "-s" and the scale value right
\* after the polynomial coefficients and right before "--"; the command
\* line of a thickness job has no "-s".
ScaleOptionPlaced(cmd, p) ==
    \E i \in 12 .. (Len(cmd) - 2) :
        /\ cmd[i] = "-s"
        /\ cmd[i + 1] = p.scale_sedimentation_rate
        /\ cmd[i + 2] = "--"
        /\ SubSeq(cmd, i - 10, i - 1) = p.age_distance_polynomial_coefficients
        /\ cmd[i - 11] = "-f"
        /\ \A j \in 1 .. Len(cmd) : cmd[j] = "-s" => j = i

CommandOk(m, cmd) ==
    IF m = "rate"
    THEN ScaleOptionPlaced(cmd, RateParams)
    ELSE \A j \in 1 .. Len(cmd) : cmd[j] # "-s"

C8_ScaleOnlyInRateMode ==
    /\ \A m \in Modes : \A w \in InFlight(m) : CommandOk(m, busy[m][w].cmd)
    /\ running # Idle => CommandOk(mode, running.cmd)

C8_Witness ==
    /\ InFlight("thickness") # {}
    /\ InvokedTimes("rate") # {}

\* C9: creating the output directories never fails, a run creates exactly
\* the missing directories, and a second run after a complete first one
\* creates nothing and invokes the same jobs.
NeededDirs ==
    {output_base_dir, sediment_output_sub_dir}
        \cup {ModeParams(m).output_dir : m \in {k \in Modes : Enabled(k)}}

C9_DirectoriesOnDemand ==
    /\ uncaught # "FileNotFoundError"
    /\ created \subseteq missing
    /\ (pc = "done" /\ uncaught = "none") =>
            created = missing \cap NeededDirs
    /\ (run = 2 /\ prevOK) =>
            /\ created = {}
            /\ (pc = "done" /\ uncaught = "none" /\ ~interrupted) =>
                    InvokedJobs = prevInvoked

\* C10: a pool of N workers has at most N calls in flight, no job is held
\* by two workers, a worker takes its next job only after its current one
\* has ended, and no thickness job starts before the rate pool is joined.
ExpectedWorkers ==
    IF IsBool(use_all_cpus)
    THEN (IF cpu_count <= 0 THEN 1 ELSE cpu_count)
    ELSE use_all_cpus.val

C10_State ==
    /\ \A m \in Modes :
        /\ InFlight(m) # {} => Cardinality(InFlight(m)) <= ExpectedWorkers
        /\ \A w1 \in InFlight(m) : \A w2 \in InFlight(m) :
                w1 # w2 => busy[m][w1].time # busy[m][w2].time
        /\ \A w \in InFlight(m) :
                /\ busy[m][w].time \notin SeqToSet(queue[m])
                /\ busy[m][w].time \notin completed[m]
    /\ InvokedTimes("thickness") # {} =>
        /\ InFlight("rate") = {}
        /\ queue["rate"] = << >>
        /\ poolState["rate"] \in {"none", "joined"}

C10_Step ==
    \A m \in Modes : \A w \in Workers :
        busy[m][w] # Idle => busy'[m][w] \in {busy[m][w], Idle}

====
